---- MODULE Spec2Model ----
(***************************************************************************)
(* RAG-Agent: query classification, routing workflow and retrieval         *)
(* scoring.  A query is a sequence of characters; the classifier works on  *)
(* its lower-cased text by substring search and regular expressions, the   *)
(* workflow runs decision -> (weather | rag | fallback) -> END, and the    *)
(* document pipeline turns retrieved chunk scores into a confidence.       *)
(*                                                                         *)
(* Similarity scores are kept in hundredths (score 0.15 is 15), so the     *)
(* confidence "100 * mean" is the rational  sum / n,  kept as num/den.     *)
(***************************************************************************)
EXTENDS Integers, Sequences, FiniteSets, TLC

(***************************************************************************)
(* Bounds of the model.                                                    *)
(***************************************************************************)
MaxFragments == 1   \* a query is 1..MaxFragments text fragments joined by spaces
NumChunks    == 7   \* chunks held by the vector store
MaxPages     == 5   \* pages of a PDF

(***************************************************************************)
(* Text: characters, str.lower(), the `in` substring test, regex helpers.  *)
(***************************************************************************)
LowerLetters ==
  {"a","b","c","d","e","f","g","h","i","j","k","l","m",
   "n","o","p","q","r","s","t","u","v","w","x","y","z"}

UpperToLower ==
  ("A" :> "a") @@ ("B" :> "b") @@ ("C" :> "c") @@ ("D" :> "d") @@ ("E" :> "e") @@
  ("F" :> "f") @@ ("G" :> "g") @@ ("H" :> "h") @@ ("I" :> "i") @@ ("J" :> "j") @@
  ("K" :> "k") @@ ("L" :> "l") @@ ("M" :> "m") @@ ("N" :> "n") @@ ("O" :> "o") @@
  ("P" :> "p") @@ ("Q" :> "q") @@ ("R" :> "r") @@ ("S" :> "s") @@ ("T" :> "t") @@
  ("U" :> "u") @@ ("V" :> "v") @@ ("W" :> "w") @@ ("X" :> "x") @@ ("Y" :> "y") @@
  ("Z" :> "z")

UpperLetters == DOMAIN UpperToLower

\* str.lower()
LowerChar(c) == IF c \in UpperLetters THEN UpperToLower[c] ELSE c

Lower(s) == [i \in 1..Len(s) |-> LowerChar(s[i])]

\* regex \w, [A-Z], [a-z], \s on one character
Digits == {"0","1","2","3","4","5","6","7","8","9"}

IsWordChar(c) == c \in LowerLetters \cup UpperLetters \cup Digits \cup {"_"}

IsUpper(c) == c \in UpperLetters

IsLower(c) == c \in LowerLetters

IsSpace(c) == c = " "

\* the literal lit occurs in s starting at position i
MatchAt(s, i, lit) ==
  /\ i >= 1
  /\ i + Len(lit) - 1 <= Len(s)
  /\ SubSeq(s, i, i + Len(lit) - 1) = lit

\* Python `kw in s`
Contains(s, kw) == \E i \in 1..(Len(s) + 1) : MatchAt(s, i, kw)

\* regex \b before position i (between s[i-1] and s[i])
WordBoundary(s, i) ==
  LET before == i > 1 /\ i - 1 <= Len(s) /\ IsWordChar(s[i - 1])
      after  == i >= 1 /\ i <= Len(s) /\ IsWordChar(s[i])
  IN  before # after

\* positions reachable from i by \s+
AfterSpaces(s, i) ==
  {j \in (i + 1)..(Len(s) + 1) : \A k \in i..(j - 1) : IsSpace(s[k])}

\* positions reachable from i by \w+
AfterWord(s, i) ==
  {j \in (i + 1)..(Len(s) + 1) : \A k \in i..(j - 1) : IsWordChar(s[k])}

\* positions reachable from i by one of the alternatives (a|b|c)
AfterAlt(s, i, alts) ==
  {j \in (i + 1)..(Len(s) + 1) : \E a \in alts : MatchAt(s, i, a) /\ j = i + Len(a)}

Preps == { <<"i","n">>, <<"a","t">>, <<"f","o","r">> }

W_weather == <<"w","e","a","t","h","e","r">>

W_temperature == <<"t","e","m","p","e","r","a","t","u","r","e">>

\* r'\bweather\s+(in|at|for)\s+\w+'  and  r'\btemperature\s+(in|at|for)\s+\w+'
PatTopicPrepWord(s, topic) ==
  \E i \in 1..Len(s) :
    /\ WordBoundary(s, i)
    /\ MatchAt(s, i, topic)
    /\ \E j \in AfterSpaces(s, i + Len(topic)) :
         \E k \in AfterAlt(s, j, Preps) :
           \E m \in AfterSpaces(s, k) : AfterWord(s, m) # {}

\* r'\b\w+\s+(weather|temperature)'
PatWordTopic(s) ==
  \E i \in 1..Len(s) :
    /\ WordBoundary(s, i)
    /\ \E j \in AfterWord(s, i) :
         \E k \in AfterSpaces(s, j) :
           AfterAlt(s, k, {W_weather, W_temperature}) # {}

\* r'\b(in|at|for)\s+[A-Z][a-z]+'
PatPrepCapital(s) ==
  \E i \in 1..Len(s) :
    /\ WordBoundary(s, i)
    /\ \E j \in AfterAlt(s, i, Preps) :
         \E k \in AfterSpaces(s, j) :
           /\ k + 1 <= Len(s)
           /\ IsUpper(s[k])
           /\ IsLower(s[k + 1])

(***************************************************************************)
(* DecisionNode: keyword tables and classify_query.                        *)
(***************************************************************************)
weather_keywords ==
  << <<"w","e","a","t","h","e","r">>,
     <<"t","e","m","p","e","r","a","t","u","r","e">>,
     <<"f","o","r","e","c","a","s","t">>,
     <<"r","a","i","n">>,
     <<"s","n","o","w">>,
     <<"s","u","n","n","y">>,
     <<"c","l","o","u","d","y">>,
     <<"h","u","m","i","d","i","t","y">>,
     <<"w","i","n","d">>,
     <<"s","t","o","r","m">>,
     <<"c","l","i","m","a","t","e">>,
     <<"t","e","m","p","e","r","a","t","u","r","e">>,
     <<"d","e","g","r","e","e","s">>,
     <<"c","e","l","s","i","u","s">>,
     <<"f","a","h","r","e","n","h","e","i","t">>,
     <<"h","o","t">>,
     <<"c","o","l","d">>,
     <<"w","a","r","m">>,
     <<"c","o","o","l">> >>

document_keywords ==
  << <<"d","o","c","u","m","e","n","t">>,
     <<"p","d","f">>,
     <<"f","i","l","e">>,
     <<"t","e","x","t">>,
     <<"c","o","n","t","e","n","t">>,
     <<"i","n","f","o","r","m","a","t","i","o","n">>,
     <<"w","h","a","t"," ","d","o","e","s">>,
     <<"w","h","a","t"," ","i","s">>,
     <<"d","e","f","i","n","e">>,
     <<"d","e","f","i","n","i","t","i","o","n">>,
     <<"e","x","p","l","a","i","n">>,
     <<"d","e","s","c","r","i","b","e">>,
     <<"t","e","l","l"," ","m","e"," ","a","b","o","u","t">>,
     <<"s","u","m","m","a","r","i","z","e">>,
     <<"s","u","m","m","a","r","y">>,
     <<"o","v","e","r","v","i","e","w">>,
     <<"f","i","n","d">>,
     <<"p","u","r","p","o","s","e">>,
     <<"o","b","j","e","c","t","i","v","e">>,
     <<"o","b","j","e","c","t","i","v","e","s">>,
     <<"c","o","r","e"," ","t","a","s","k","s">>,
     <<"a","c","c","o","r","d","i","n","g"," ","t","o">>,
     <<"i","n"," ","t","h","e"," ","d","o","c","u","m","e","n","t">>,
     <<"b","a","s","e","d"," ","o","n"," ","t","h","e"," ","d","o","c","u","m","e","n","t">> >>

\* sum(1 for keyword in keywords if keyword in query_lower): one per list entry
KeywordScore(keywords, query_lower) ==
  Cardinality({i \in 1..Len(keywords) : Contains(query_lower, keywords[i])})

\* sum(1 for pattern in location_patterns if re.search(pattern, query_lower))
LocationScore(query_lower) ==
    (IF PatTopicPrepWord(query_lower, W_weather) THEN 1 ELSE 0)
  + (IF PatTopicPrepWord(query_lower, W_temperature) THEN 1 ELSE 0)
  + (IF PatWordTopic(query_lower) THEN 1 ELSE 0)
  + (IF PatPrepCapital(query_lower) THEN 1 ELSE 0)

\* if weather_score > 0: weather_score += location_score * 2
BoostedWeatherScore(weather_score, location_score) ==
  IF weather_score > 0 THEN weather_score + location_score * 2 ELSE weather_score

\* the decision logic at the end of classify_query, with the default arm as the
\* test suite expects it
Decide_unknown(weather_score, document_score) ==
  IF weather_score > document_score /\ weather_score > 0 THEN "weather"
  ELSE IF document_score >= weather_score /\ document_score > 0 THEN "document"
  ELSE "unknown"

\* the decision logic with a weather arm that needs a margin of two
Decide_margin(weather_score, document_score) ==
  IF weather_score > document_score + 1 /\ weather_score > 0 THEN "weather"
  ELSE IF document_score >= weather_score /\ document_score > 0 THEN "document"
  ELSE "document"

\* the decision logic at the end of classify_query
Decide(weather_score, document_score) ==
  IF weather_score > document_score /\ weather_score > 0 THEN "weather"
  ELSE IF document_score >= weather_score /\ document_score > 0 THEN "document"
  ELSE "document"

\* the three scores of classify_query before the boost
ClassifierScores(query) ==
  LET query_lower == Lower(query)
  IN  [weather_score  |-> KeywordScore(weather_keywords, query_lower),
       document_score |-> KeywordScore(document_keywords, query_lower),
       location_score |-> LocationScore(query_lower)]

classify_query(query) ==
  LET query_lower    == Lower(query)
      weather_score  == KeywordScore(weather_keywords, query_lower)
      document_score == KeywordScore(document_keywords, query_lower)
      location_score == LocationScore(query_lower)
  IN  Decide(BoostedWeatherScore(weather_score, location_score), document_score)

\* the routing table with the unknown arm ignoring has_documents
should_continue_nodocs(classification, has_documents) ==
  IF classification = "weather" THEN "weather"
  ELSE IF classification = "document" THEN "rag"
  ELSE "fallback"

\* DecisionNode.should_continue on the two values it reads from the state
should_continue(classification, has_documents) ==
  IF classification = "weather" THEN "weather"
  ELSE IF classification = "document" THEN "rag"
  ELSE IF has_documents THEN "rag" ELSE "fallback"

(***************************************************************************)
(* WeatherNode.determine_query_type and the weather service results.       *)
(***************************************************************************)
forecast_keywords ==
  << <<"f","o","r","e","c","a","s","t">>,
     <<"t","o","m","o","r","r","o","w">>,
     <<"n","e","x","t"," ","w","e","e","k">>,
     <<"u","p","c","o","m","i","n","g">>,
     <<"f","u","t","u","r","e">> >>

determine_query_type(query) ==
  IF \E i \in 1..Len(forecast_keywords) : Contains(Lower(query), forecast_keywords[i])
  THEN "forecast" ELSE "current"

\* Python None; a dict key that is missing (Absent) or holds v (Some(v)); dict.get
None == "None"

Absent == <<>>

Some(v) == <<v>>

Get(opt, default) == IF opt = Absent THEN default ELSE opt[1]

\* regex [a-zA-Z] on one character
IsAlpha(c) == c \in LowerLetters \cup UpperLetters

\* the tokens the location patterns of the weather node are made of: a literal
\* or alternation, \s+, and an optional group (...)?
Lit(w) == [t |-> "alt", v |-> {w}]

Alt(ws) == [t |-> "alt", v |-> ws]

Sp == [t |-> "sp", v |-> {}]

Opt(toks) == [t |-> "opt", v |-> toks]

\* positions reachable from i by matching the tokens in order
RECURSIVE Ends(_, _, _)
Ends(s, i, toks) ==
  IF Len(toks) = 0 THEN {i}
  ELSE LET tk    == Head(toks)
           first == IF tk.t = "alt" THEN AfterAlt(s, i, tk.v)
                    ELSE IF tk.t = "sp" THEN AfterSpaces(s, i)
                    ELSE Ends(s, i, tk.v) \cup {i}
       IN  UNION { Ends(s, j, Tail(toks)) : j \in first }

\* ends of the matches of ([a-zA-Z]+(?:\s+[a-zA-Z]+)*) that start at i
LocGroupEnds(s, i) ==
  IF i > Len(s) \/ ~IsAlpha(s[i]) THEN {}
  ELSE {j \in (i + 1)..(Len(s) + 1) :
          /\ IsAlpha(s[j - 1])
          /\ \A k \in i..(j - 1) : IsAlpha(s[k]) \/ IsSpace(s[k])}

SetMax(S) == CHOOSE x \in S : \A y \in S : y <= x

SetMin(S) == CHOOSE x \in S : \A y \in S : x <= y

W_forecast == <<"f","o","r","e","c","a","s","t">>

W_now == <<"n","o","w">>

W_the == <<"t","h","e">>

PrepGroup == <<Sp, Alt(Preps), Sp>>

NowPrepGroup == <<Sp, Opt(<<Lit(W_now), Sp>>), Alt(Preps), Sp>>

\* what precedes the captured group in patterns 1, 3, 4, 5, 6, 7, 8 and 9 of
\* extract_location (pattern 2 starts with the group)
PatternPrefix(p) ==
  CASE p = 1 -> <<Lit(W_weather)>> \o PrepGroup
    [] p = 3 -> <<Lit(W_temperature)>> \o PrepGroup
    [] p = 4 -> <<Lit(W_forecast)>> \o PrepGroup
    [] p = 5 -> <<Lit(<<"w","h","a","t">>), Sp, Lit(<<"i","s">>), Sp, Lit(W_the), Sp,
                  Lit(W_weather)>> \o NowPrepGroup
    [] p = 6 -> <<Lit(<<"t","e","l","l">>), Sp, Lit(<<"m","e">>), Sp,
                  Opt(<<Lit(W_the), Sp>>), Lit(W_weather)>> \o NowPrepGroup
    [] p = 7 -> <<Lit(<<"h","o","w">>), Sp, Lit(<<"i","s">>), Sp, Lit(W_the), Sp,
                  Lit(W_weather)>> \o NowPrepGroup
    [] p = 8 -> <<Lit(<<"w","h","a","t">>), Opt(<<Lit(<<"'">>)>>), Lit(<<"s">>), Sp,
                  Lit(W_the), Sp, Lit(W_weather)>> \o NowPrepGroup
    [] p = 9 -> <<Lit(<<"c","u","r","r","e","n","t">>), Sp, Lit(W_weather)>> \o PrepGroup

\* re.search(pattern, s).group(1), <<>> when the pattern does not match: the
\* leftmost match, its group as long as possible
PatternGroup(s, p) ==
  IF p = 2
  THEN LET ends(i)  == {j \in LocGroupEnds(s, i) :
                          /\ j <= Len(s)
                          /\ IsSpace(s[j])
                          /\ \E k \in AfterSpaces(s, j) : MatchAt(s, k, W_weather)}
           starts   == {i \in 1..Len(s) : IsAlpha(s[i]) /\ ends(i) # {}}
       IN  IF starts = {} THEN <<>>
           ELSE SubSeq(s, SetMin(starts), SetMax(ends(SetMin(starts))) - 1)
  ELSE LET groups(i) == {m \in Ends(s, i, PatternPrefix(p)) : LocGroupEnds(s, m) # {}}
           starts    == {i \in 1..Len(s) : groups(i) # {}}
       IN  IF starts = {} THEN <<>>
           ELSE LET m == SetMax(groups(SetMin(starts)))
                IN  SubSeq(s, m, SetMax(LocGroupEnds(s, m)) - 1)

\* str.strip()
Strip(s) ==
  LET kept == {i \in 1..Len(s) : ~IsSpace(s[i])}
  IN  IF kept = {} THEN <<>> ELSE SubSeq(s, SetMin(kept), SetMax(kept))

StopWords ==
  { <<"w","h","a","t">>, <<"i","s">>, W_the, <<"i","n">>, <<"a","t">>, <<"f","o","r">>,
    W_weather, W_temperature, W_forecast }

\* position k of s lies in a match of \b(what|is|the|...)\b
InStopWord(s, k) ==
  \E i \in 1..k : \E w \in StopWords :
    /\ k < i + Len(w)
    /\ MatchAt(s, i, w)
    /\ WordBoundary(s, i)
    /\ WordBoundary(s, i + Len(w))

\* re.sub(r'\b(what|is|the|in|at|for|weather|temperature|forecast)\b', '', s)
RECURSIVE DropStopWords(_, _)
DropStopWords(s, k) ==
  IF k > Len(s) THEN <<>>
  ELSE (IF InStopWord(s, k) THEN <<>> ELSE <<s[k]>>) \o DropStopWords(s, k + 1)

\* str.split(): the whitespace-separated words, in order
RECURSIVE SplitWords(_)
SplitWords(s) ==
  LET t == Strip(s)
  IN  IF t = <<>> THEN <<>>
      ELSE LET spaces == {i \in 1..Len(t) : IsSpace(t[i])}
           IN  IF spaces = {} THEN <<t>>
               ELSE <<SubSeq(t, 1, SetMin(spaces) - 1)>>
                      \o SplitWords(SubSeq(t, SetMin(spaces), Len(t)))

excluded_words ==
  { <<"W","h","a","t">>, <<"I","s">>, <<"T","h","e">>, <<"W","e","a","t","h","e","r">>,
    <<"T","e","m","p","e","r","a","t","u","r","e">>, <<"F","o","r","e","c","a","s","t">>,
    <<"I","n">>, <<"A","t">>, <<"F","o","r">>, <<"T","e","l","l">>, <<"M","e">>,
    <<"H","o","w">> }

\* a (city, country_code) pair; country_code None is Absent
Location(city, country_code) == [city |-> city, country_code |-> country_code]

\* the part of extract_location after a pattern gave a non-empty location
SplitLocation(location) ==
  LET commas == {i \in 1..Len(location) : location[i] = ","}
  IN  IF Cardinality(commas) = 1
      THEN LET c == SetMin(commas)
           IN  Location(Strip(SubSeq(location, 1, c - 1)),
                        Some(Strip(SubSeq(location, c + 1, Len(location)))))
      ELSE Location(location, Absent)

\* the location a pattern yields after cleaning, <<>> when it is skipped
CleanedLocation(query_lower, p) ==
  Strip(DropStopWords(Strip(PatternGroup(query_lower, p)), 1))

\* WeatherNode.extract_location
extract_location(query) ==
  LET query_lower == Lower(query)
      matching    == {p \in 1..9 : CleanedLocation(query_lower, p) # <<>>}
      words       == SplitWords(query)
      capitalized == {i \in 1..Len(words) :
                        /\ IsUpper(words[i][1])
                        /\ Len(words[i]) > 2
                        /\ words[i] \notin excluded_words}
  IN  IF matching # {} THEN SplitLocation(CleanedLocation(query_lower, SetMin(matching)))
      ELSE IF capitalized # {} THEN Location(words[SetMin(capitalized)], Absent)
      ELSE Location(<<"L","o","n","d","o","n">>, Absent)

\* the keys of the dict a weather service call returns, by outcome
CurrentWeatherKeys == {"location", "current_weather", "timestamp", "source"}

ForecastKeys == {"location", "forecast", "timestamp", "source"}

ErrorResultKeys == {"error", "location", "timestamp"}

\* outcomes of one collaborator call
ProviderOutcomes == {"ok", "error_result", "raise"}

\* get_current_weather / get_forecast: the dict returned, or the exception
\* that escapes the except clauses of the service
WeatherCall(query_type, outcome) ==
  IF outcome = "raise" THEN [exc |-> "ProviderException", value |-> {}]
  ELSE IF outcome = "error_result" THEN [exc |-> None, value |-> ErrorResultKeys]
  ELSE IF query_type = "forecast" THEN [exc |-> None, value |-> ForecastKeys]
  ELSE [exc |-> None, value |-> CurrentWeatherKeys]

\* the exception classes the service's except clauses tell apart
RequestExceptions == {"HTTPError", "ConnectionError", "Timeout"}

\* a result dict of the service: its keys, its "error" text as the literal
\* part and the interpolated part of the f-string, and what "location" holds
\* (the city argument in an error result, the provider's city name otherwise)
ServiceReturn(keys, error, location) ==
  [kind |-> "return", keys |-> keys, error |-> error, location |-> location,
   exc |-> None]

ServiceRaise(e) ==
  [kind |-> "raise", keys |-> {}, error |-> Absent, location |-> Absent, exc |-> e]

ErrorResult(literal, detail, city) ==
  ServiceReturn(ErrorResultKeys, Some(<<literal, detail>>), Some(city))

\* the literal part of the message of a failed fetch, by service method
FetchFailed(fn) ==
  IF fn = "forecast" THEN "Failed to fetch forecast data: "
  ELSE "Failed to fetch weather data: "

\* the except clauses of get_current_weather / get_weather_forecast, in order:
\* HTTPError (401 apart), RequestException, KeyError; anything else escapes
ServiceExcept(fn, e, status, city) ==
  IF e = "HTTPError" /\ status = 401
  THEN ErrorResult("Unauthorized (401)", "", city)
  ELSE IF e \in RequestExceptions THEN ErrorResult(FetchFailed(fn), e, city)
  ELSE IF e = "KeyError" THEN ErrorResult("Unexpected API response format: ", e, city)
  ELSE ServiceRaise(e)

\* f"{city},{country_code}" if country_code else city
LocationString(city, country_code) ==
  IF country_code = Absent THEN city ELSE city \o "," \o country_code[1]

\* the dict built from a complete provider answer
WeatherData(fn, name) ==
  ServiceReturn(IF fn = "forecast" THEN ForecastKeys ELSE CurrentWeatherKeys,
                Absent, Some(name))

\* WeatherService.format_weather_response: weather_data["current_weather"]
\* raises KeyError when the key is missing
format_weather_response(weather_data) ==
  IF "error" \in weather_data THEN [exc |-> None, value |-> "weather_error_text"]
  ELSE IF "location" \notin weather_data THEN [exc |-> "KeyError location", value |-> ""]
  ELSE IF "current_weather" \notin weather_data
       THEN [exc |-> "KeyError current_weather", value |-> ""]
  ELSE [exc |-> None, value |-> "weather_report"]

\* the except clause of WeatherNode.process
WeatherNodeExcept(state, e) ==
  [state EXCEPT !.response = "weather_exception_text",
                !.response_type = "error",
                !.error = e]

\* WeatherNode.process with weather_data stored before the response is formatted
WeatherNodeProcess_early(state, call) ==
  IF call.exc # None THEN WeatherNodeExcept(state, call.exc)
  ELSE LET weather_data == call.value
           formatted == format_weather_response(weather_data)
       IN  IF formatted.exc # None
           THEN [WeatherNodeExcept(state, formatted.exc)
                   EXCEPT !.weather_data = Some(weather_data)]
           ELSE [state EXCEPT !.weather_data = Some(weather_data),
                              !.response = formatted.value,
                              !.response_type = "weather"]

\* WeatherNode.process after the service call returned or raised
WeatherNodeProcess(state, call) ==
  IF call.exc # None THEN WeatherNodeExcept(state, call.exc)
  ELSE LET weather_data == call.value
           formatted == IF "error" \in weather_data
                        THEN [exc |-> None, value |-> "weather_error_text"]
                        ELSE format_weather_response(weather_data)
       IN  IF formatted.exc # None THEN WeatherNodeExcept(state, formatted.exc)
           ELSE [state EXCEPT !.weather_data = Some(weather_data),
                              !.response = formatted.value,
                              !.response_type = "weather"]

(***************************************************************************)
(* FallbackNode.process.                                                   *)
(***************************************************************************)
FallbackNodeProcess(state) ==
  [state EXCEPT !.response = "fallback_help",
                !.response_type = "fallback",
                !.suggestions = Some("suggestions")]

(***************************************************************************)
(* RAGService: the vector store's chunks, search_similar_chunks,           *)
(* answer_question and query_documents; RAGNode.process.                   *)
(***************************************************************************)
\* payloads and similarity scores (in hundredths) of the stored chunks
ScoreTable == <<10, 20, 50, 60, 40, 150, -10, 0, 30, 100>>

SourceTable ==
  <<"a.pdf", "a.pdf", "b.pdf", "b.pdf", "c.pdf", "c.pdf", "a.pdf", "b.pdf", "c.pdf", "a.pdf">>

PageRangeTable == <<"1", "1-2", "3", "4-6", "2", "7", "1-2", "5", "9", "8">>

TextLenTable == <<120, 200, 201, 950, 35, 1000, 199, 640, 200, 201>>

Chunk(i) ==
  [id |-> i, text_len |-> TextLenTable[i], source |-> SourceTable[i],
   page_range |-> PageRangeTable[i], score |-> ScoreTable[i]]

StoredIds == 1..NumChunks

\* limit=3 in RAGNode.process
rag_limit == 3

\* what qdrant.search can return: at most `limit` distinct points, in any order
SearchHits(limit) ==
  UNION { {h \in [1..n -> StoredIds] : \A i, j \in 1..n : i # j => h[i] # h[j]}
          : n \in 0..limit }

\* search_similar_chunks: the hits as chunk dicts, [] when anything raises
search_similar_chunks(outcome, hits) ==
  IF outcome = "raise" THEN <<>>
  ELSE [i \in 1..Len(hits) |-> Chunk(hits[i])]

\* answer_question: the LLM text, or the apology its except clause returns
answer_question(outcome) ==
  IF outcome = "raise" THEN "sorry_error_generating_answer" ELSE "llm_answer"

\* query_documents: `if not similar_chunks` returns before the answer call
NeedsAnswer_two(similar_chunks) == Len(similar_chunks) > 1

NeedsAnswer(similar_chunks) == similar_chunks # <<>>

RECURSIVE SumScores(_)
SumScores(chunks) ==
  IF chunks = <<>> THEN 0 ELSE chunks[1].score + SumScores(Tail(chunks))

\* chunk["text"][:200] + "..." if len(chunk["text"]) > 200 else chunk["text"]
Excerpt(text_len) ==
  IF text_len > 200 THEN [len |-> 200 + 3, ellipsis |-> TRUE]
  ELSE [len |-> text_len, ellipsis |-> FALSE]

\* the sources re-ranked: the best chunk moved to the front
Sources_reranked(similar_chunks) ==
  LET n    == Len(similar_chunks)
      best == CHOOSE i \in 1..n : \A j \in 1..n :
                similar_chunks[j].score <= similar_chunks[i].score
      perm == [i \in 1..n |-> IF i = 1 THEN best ELSE IF i = best THEN 1 ELSE i]
  IN  [i \in 1..n |->
         [text |-> Excerpt(similar_chunks[perm[i]].text_len),
          source |-> similar_chunks[perm[i]].source,
          page_range |-> similar_chunks[perm[i]].page_range,
          score |-> similar_chunks[perm[i]].score]]

\* query_documents: one source entry per chunk, in the order of the chunks
Sources(similar_chunks) ==
  [i \in 1..Len(similar_chunks) |->
     [text |-> Excerpt(similar_chunks[i].text_len),
      source |-> similar_chunks[i].source,
      page_range |-> similar_chunks[i].page_range,
      score |-> similar_chunks[i].score]]

\* the confidence without the cap at 100
Confidence_nocap(similar_chunks) ==
  [num |-> SumScores(similar_chunks), den |-> Len(similar_chunks)]

\* avg_score = sum(scores) / len(similar_chunks); min(avg_score * 100, 100),
\* as the fraction num/den of a percentage
Confidence(similar_chunks) ==
  LET n   == Len(similar_chunks)
      sum == SumScores(similar_chunks)
  IN  IF sum <= 100 * n THEN [num |-> sum, den |-> n] ELSE [num |-> 100, den |-> 1]

\* the dict query_documents returns when the search found nothing
EmptyRagResult ==
  [answer |-> "no_relevant_information", sources |-> <<>>,
   confidence |-> [num |-> 0, den |-> 1]]

\* the dict query_documents returns after the answer call
RagResult(similar_chunks, answer) ==
  [answer |-> answer, sources |-> Sources(similar_chunks),
   confidence |-> Confidence(similar_chunks)]

\* rag_result["confidence"] > 0.3 in RAGNode.process
AboveThreshold(confidence) == 10 * confidence.num > 3 * confidence.den

\* RAGNode.process after query_documents returned
RAGNodeProcess(state, rag_result) ==
  [state EXCEPT !.rag_result = Some(rag_result),
                !.response = IF AboveThreshold(rag_result.confidence)
                             THEN "document_answer" ELSE "document_not_found",
                !.response_type = "document",
                !.confidence = Some(rag_result.confidence),
                !.sources = Some(rag_result.sources)]

(***************************************************************************)
(* RAGService._find_chunk_page_range: the page or page window of a chunk.  *)
(***************************************************************************)
\* str(n) of an integer n >= 0
RECURSIVE Str(_)
Str(n) ==
  LET digits == <<"0", "1", "2", "3", "4", "5", "6", "7", "8", "9">>
  IN  IF n < 10 THEN digits[n + 1]
      ELSE Str(n \div 10) \o digits[(n % 10) + 1]

\* set(text.lower().split())
WordSet(text) ==
  LET words == SplitWords(Lower(text))
  IN  {words[i] : i \in 1..Len(words)}

\* best_match_score = 0, best_page = 1 before the loop
NoMatch == [best_match_score |-> 0, best_page |-> 1]

\* the loop keeping the last of the pages with the largest overlap
RECURSIVE ScanPages_last(_, _, _, _)
ScanPages_last(chunk_words, pages, k, best) ==
  IF k > Len(pages) THEN best
  ELSE LET overlap == Cardinality(chunk_words \cap WordSet(pages[k].text))
       IN  ScanPages_last(chunk_words, pages, k + 1,
                     IF overlap >= best.best_match_score /\ overlap > 0
                     THEN [best_match_score |-> overlap, best_page |-> pages[k].page_num]
                     ELSE best)

\* the loop over page_texts from its k-th entry on: a page replaces the best
\* one only when its overlap is strictly larger
RECURSIVE ScanPages(_, _, _, _)
ScanPages(chunk_words, pages, k, best) ==
  IF k > Len(pages) THEN best
  ELSE LET overlap == Cardinality(chunk_words \cap WordSet(pages[k].text))
       IN  ScanPages(chunk_words, pages, k + 1,
                     IF overlap > best.best_match_score
                     THEN [best_match_score |-> overlap, best_page |-> pages[k].page_num]
                     ELSE best)

\* the threshold for a good match
good_match_threshold == 3

\* the return statement with the single page given from an overlap of 3 on
PageRangeOf_from3(best) ==
  IF best.best_match_score >= good_match_threshold THEN Str(best.best_page)
  ELSE Str(IF best.best_page - 1 > 1 THEN best.best_page - 1 ELSE 1)
         \o "-" \o Str(best.best_page + 1)

\* the return statement: str(best_page), or the window around best_page
PageRangeOf(best) ==
  IF best.best_match_score > good_match_threshold THEN Str(best.best_page)
  ELSE Str(IF best.best_page - 1 > 1 THEN best.best_page - 1 ELSE 1)
         \o "-" \o Str(best.best_page + 1)

\* _find_chunk_page_range: the locals after the loop and the value returned
find_chunk_page_range(chunk_text, pages) ==
  LET best == ScanPages(WordSet(chunk_text), pages, 1, NoMatch)
  IN  [best_match_score |-> best.best_match_score,
       best_page |-> best.best_page,
       returned |-> PageRangeOf(best)]

(***************************************************************************)
(* RAGAgent: the request state, the node wrappers and process_query.       *)
(***************************************************************************)
\* text fragments the modelled queries are made of
Fragments ==
  { <<"W","h","a","t","'","s"," ","t","h","e"," ","w","e","a","t","h","e","r">>,
    <<"W","h","a","t","'","s"," ","t","h","e"," ","w","e","a","t","h","e","r"," ",
      "i","n"," ","L","o","n","d","o","n","?">>,
    <<"i","n"," ","L","o","n","d","o","n","?">>,
    <<"H","e","l","l","o">>,
    <<"W","h","a","t"," ","i","s">>,
    <<"t","h","e"," ","d","o","c","u","m","e","n","t">>,
    <<"p","h","o","t","o">>,
    <<"f","o","r","e","c","a","s","t">>,
    <<"t","e","m","p","e","r","a","t","u","r","e">> }

RECURSIVE JoinFragments(_)
JoinFragments(fs) ==
  IF Len(fs) = 1 THEN fs[1] ELSE fs[1] \o <<" ">> \o JoinFragments(Tail(fs))

Queries ==
  { JoinFragments(fs) : fs \in UNION { [1..n -> Fragments] : n \in 1..MaxFragments } }

VARIABLES
  pc,             \* position of the request in process_query and the graph
  query,          \* the query text
  tracing,        \* self.langsmith_client is set
  state,          \* the state dict threaded through the graph
  calls,          \* collaborator calls made so far, with their outcome
  similar_chunks, \* local of query_documents
  answer,         \* local of query_documents
  result,         \* what process_query gave back to its caller
  executed,       \* the graph nodes run so far, in order
  requests,       \* concurrent calls of process_query: position, locals, result
  states,         \* the state dicts of the concurrent calls
  embedding_model,\* RAGService.embedding_model, the lazily built model handle
  constructions,  \* how many embedding models have been constructed
  chunk,          \* _find_chunk_page_range: the chunk text
  page_texts,     \* process_pdf / _find_chunk_page_range: the non-empty pages
  page_range,     \* _find_chunk_page_range: its locals and the string returned
  ingest,         \* add_document: position, locals, collaborator calls, result
  weather_call    \* a WeatherService call: arguments, position, result

vars ==
  <<pc, query, tracing, state, calls, similar_chunks, answer, result, executed,
    requests, states, embedding_model, constructions,
    chunk, page_texts, page_range, ingest, weather_call>>

\* the variables of the single-request runs, and of the concurrent runs
singleVars == <<pc, query, state, calls, similar_chunks, answer, result, executed>>

concVars == <<requests, states, embedding_model, constructions>>

\* the variables of the service-level runs: page attribution, ingestion, weather
serviceVars == <<chunk, page_texts, page_range, ingest, weather_call>>

\* self.embedding_model is None
NoModel == 0

\* no service-level call is under way
IdleIngest ==
  [pc |-> "idle", page_num |-> 0, todo |-> <<>>, chunks |-> <<>>, calls |-> <<>>,
   returned |-> Absent]

ServicesIdle ==
  /\ chunk = <<>>
  /\ page_texts = <<>>
  /\ page_range = Absent
  /\ ingest = IdleIngest
  /\ weather_call = [pc |-> "idle"]

\* initial_state in process_query
InitialState(has_docs) ==
  [query_classification |-> Absent,
   routing_decision |-> Absent,
   suggestions |-> Absent,
   has_documents |-> Some(has_docs),
   response |-> "",
   response_type |-> "",
   error |-> None,
   weather_data |-> Absent,
   rag_result |-> Absent,
   confidence |-> Absent,
   sources |-> Absent]

\* RAGService.has_documents: count > 0, False when the count call raises
has_documents_stale(outcome) == outcome # "zero"

has_documents(outcome) == outcome = "some"

\* the except clause of a node wrapper
WrapperExcept(st, node_name, e) ==
  [st EXCEPT !.error = node_name \o " node error: " \o e]

\* DecisionNode.process
DecisionNodeProcess(st, q) ==
  LET classification == classify_query(q)
  IN  [st EXCEPT !.query_classification = Some(classification),
                 !.routing_decision = Some(classification)]

\* the outer except clause marking the graph's state instead of a fresh dict
OuterExcept_update(e) ==
  [kind |-> "return",
   value |-> [state EXCEPT !.response = "process_error_text",
                           !.response_type = "error",
                           !.error = e]]

\* the outer except clause of process_query
OuterExcept(e) ==
  [kind |-> "return",
   value |-> [InitialState(FALSE) EXCEPT !.has_documents = Absent,
                                         !.response = "process_error_text",
                                         !.response_type = "error",
                                         !.error = e]]

\* outcomes of langsmith_client.create_run: not called when tracing is off
TraceOutcomes == IF tracing THEN {"ok", "raise"} ELSE {"ok"}

\* a collaborator call and its outcome; a weather call also has its arguments
Call(op, res) == [op |-> op, res |-> res, arg |-> Absent]

WeatherRequest(op, res, location) == [op |-> op, res |-> res, arg |-> Some(location)]

\* _build_graph: the entry point, and the edge from each handler node to END
entry_point == "decision"

EdgeTo_chain(node) == IF node = "fallback" THEN "rag" ELSE "complete"

EdgeTo(node) == "complete"

Init ==
  /\ pc = "start"
  /\ query \in Queries
  /\ tracing \in BOOLEAN
  /\ state = InitialState(FALSE)
  /\ calls = <<>>
  /\ similar_chunks = <<>>
  /\ answer = ""
  /\ result = [kind |-> "none", value |-> InitialState(FALSE)]
  /\ executed = <<>>
  /\ requests = <<>>
  /\ states = <<>>
  /\ embedding_model = NoModel
  /\ constructions = 0
  /\ ServicesIdle

\* process_query: the has_documents probe and the initial state
Probe ==
  /\ pc = "start"
  /\ \E outcome \in {"raise", "zero", "some"} :
       /\ calls' = Append(calls, Call("count", outcome))
       /\ state' = InitialState(has_documents(outcome))
  /\ pc' = entry_point
  /\ UNCHANGED <<query, tracing, similar_chunks, answer, result>>
  /\ UNCHANGED executed
  /\ UNCHANGED concVars
  /\ UNCHANGED serviceVars

\* _decision_wrapper
DecisionWrapper ==
  /\ pc = "decision"
  /\ \E trace \in TraceOutcomes :
       state' = IF trace = "raise"
                THEN WrapperExcept(state, "Decision", "TraceException")
                ELSE DecisionNodeProcess(state, query)
  /\ pc' = "route"
  /\ UNCHANGED <<query, tracing, calls, similar_chunks, answer, result>>
  /\ executed' = Append(executed, "decision")
  /\ UNCHANGED concVars
  /\ UNCHANGED serviceVars

\* _route_decision on the conditional edge out of the decision node
Route ==
  /\ pc = "route"
  /\ pc' = should_continue(Get(state.query_classification, "unknown"),
                           Get(state.has_documents, FALSE))
  /\ UNCHANGED <<query, tracing, state, calls, similar_chunks, answer, result>>
  /\ UNCHANGED executed
  /\ UNCHANGED concVars
  /\ UNCHANGED serviceVars

\* _weather_wrapper and WeatherNode.process
WeatherWrapper ==
  /\ pc = "weather"
  /\ \E trace \in TraceOutcomes :
       IF trace = "raise"
       THEN /\ state' = WrapperExcept(state, "Weather", "TraceException")
            /\ calls' = calls
       ELSE LET location   == extract_location(query)
                query_type == determine_query_type(query)
                op == IF query_type = "forecast" THEN "forecast" ELSE "current_weather"
            IN  \E outcome \in ProviderOutcomes :
                  /\ calls' = Append(calls, WeatherRequest(op, outcome, location))
                  /\ state' = WeatherNodeProcess(state, WeatherCall(query_type, outcome))
  /\ pc' = EdgeTo("weather")
  /\ UNCHANGED <<query, tracing, similar_chunks, answer, result>>
  /\ executed' = Append(executed, "weather")
  /\ UNCHANGED concVars
  /\ UNCHANGED serviceVars

\* _rag_wrapper, RAGNode.process, query_documents up to the search
RagSearch ==
  /\ pc = "rag"
  /\ \E trace \in TraceOutcomes :
       IF trace = "raise"
       THEN /\ state' = WrapperExcept(state, "RAG", "TraceException")
            /\ pc' = EdgeTo("rag")
            /\ UNCHANGED <<calls, similar_chunks>>
       ELSE /\ \E outcome \in {"ok", "raise"}, hits \in SearchHits(rag_limit) :
                 /\ outcome = "raise" => hits = <<>>
                 /\ calls' = Append(calls, Call("search", outcome))
                 /\ similar_chunks' = search_similar_chunks(outcome, hits)
            /\ pc' = "rag_answer"
            /\ state' = state
  /\ UNCHANGED <<query, tracing, answer, result>>
  /\ executed' = Append(executed, "rag")
  /\ UNCHANGED concVars
  /\ UNCHANGED serviceVars

\* query_documents: the early return on no chunks, else the answer call
RagAnswer ==
  /\ pc = "rag_answer"
  /\ IF NeedsAnswer(similar_chunks)
     THEN /\ \E outcome \in {"ok", "raise"} :
               /\ calls' = Append(calls, Call("answer", outcome))
               /\ answer' = answer_question(outcome)
          /\ pc' = "rag_score"
          /\ state' = state
     ELSE /\ state' = RAGNodeProcess(state, EmptyRagResult)
          /\ pc' = EdgeTo("rag")
          /\ UNCHANGED <<calls, answer>>
  /\ UNCHANGED <<query, tracing, similar_chunks, result>>
  /\ UNCHANGED executed
  /\ UNCHANGED concVars
  /\ UNCHANGED serviceVars

\* query_documents: sources and confidence; RAGNode.process: the state update
RagScore ==
  /\ pc = "rag_score"
  /\ state' = RAGNodeProcess(state, RagResult(similar_chunks, answer))
  /\ pc' = EdgeTo("rag")
  /\ UNCHANGED <<query, tracing, calls, similar_chunks, answer, result>>
  /\ UNCHANGED executed
  /\ UNCHANGED concVars
  /\ UNCHANGED serviceVars

\* _fallback_wrapper and FallbackNode.process
FallbackWrapper ==
  /\ pc = "fallback"
  /\ \E trace \in TraceOutcomes :
       state' = IF trace = "raise"
                THEN WrapperExcept(state, "Fallback", "TraceException")
                ELSE FallbackNodeProcess(state)
  /\ pc' = EdgeTo("fallback")
  /\ UNCHANGED <<query, tracing, calls, similar_chunks, answer, result>>
  /\ executed' = Append(executed, "fallback")
  /\ UNCHANGED concVars
  /\ UNCHANGED serviceVars

\* process_query after graph.invoke: the closing create_run and the return
Complete ==
  /\ pc = "complete"
  /\ \E trace \in TraceOutcomes :
       result' = IF trace = "raise" THEN OuterExcept("TraceException")
                 ELSE [kind |-> "return", value |-> state]
  /\ pc' = "done"
  /\ UNCHANGED <<query, tracing, state, calls, similar_chunks, answer>>
  /\ UNCHANGED executed
  /\ UNCHANGED concVars
  /\ UNCHANGED serviceVars

Next ==
  \/ Probe
  \/ DecisionWrapper
  \/ Route
  \/ WeatherWrapper
  \/ RagSearch
  \/ RagAnswer
  \/ RagScore
  \/ FallbackWrapper
  \/ Complete

Spec == Init /\ [][Next]_vars

(***************************************************************************)
(* Two calls of process_query running concurrently on one agent: each call *)
(* is a thread that can be preempted between its collaborator calls and    *)
(* between the check and the assignment of _ensure_embeddings_model.       *)
(***************************************************************************)
Requests == {1, 2}

\* queries of the concurrent calls: one routed to the weather node ("hot" is a
\* weather keyword) and one routed to the rag node
ConcQueries == { <<"p","h","o","t","o">>, <<"H","e","l","l","o">> }

\* what the search of a concurrent call can return
ConcHits == {h \in SearchHits(1) : \A i \in 1..Len(h) : h[i] <= 2}

\* the dict a call of process_query works on: initial_state is a local of the
\* call, so call r has dict r
StateOf_shared(r) == 1

StateOf_swapped(r) == 3 - r

StateOf(r) == r

NewRequest(q) ==
  [pc |-> "start", query |-> q, calls |-> <<>>, similar_chunks |-> <<>>,
   answer |-> "", model |-> NoModel,
   result |-> [kind |-> "none", value |-> InitialState(FALSE)]]

\* the call log after a create_run call, which is made only with a client
Traced(log, op, trace) == IF tracing THEN Append(log, Call(op, trace)) ELSE log

InitConc ==
  /\ tracing \in BOOLEAN
  /\ requests \in [Requests -> {NewRequest(q) : q \in ConcQueries}]
  /\ states = [r \in Requests |-> InitialState(FALSE)]
  /\ embedding_model = NoModel
  /\ constructions = 0
  /\ pc = "idle"
  /\ query = <<>>
  /\ state = InitialState(FALSE)
  /\ calls = <<>>
  /\ similar_chunks = <<>>
  /\ answer = ""
  /\ result = [kind |-> "none", value |-> InitialState(FALSE)]
  /\ executed = <<>>
  /\ ServicesIdle

\* process_query: the has_documents probe and the initial state
CProbe(r) ==
  /\ requests[r].pc = "start"
  /\ \E outcome \in {"raise", "zero", "some"} :
       /\ requests' = [requests EXCEPT ![r].pc = entry_point,
                                       ![r].calls = Append(@, Call("count", outcome))]
       /\ states' = [states EXCEPT ![StateOf(r)] = InitialState(has_documents(outcome))]
  /\ UNCHANGED <<tracing, embedding_model, constructions, singleVars>>
  /\ UNCHANGED serviceVars

\* _decision_wrapper
CDecision(r) ==
  /\ requests[r].pc = "decision"
  /\ \E trace \in TraceOutcomes :
       /\ requests' = [requests EXCEPT ![r].pc = "route",
                                       ![r].calls = Traced(@, "trace_decision", trace)]
       /\ states' = [states EXCEPT ![StateOf(r)] =
            IF trace = "raise" THEN WrapperExcept(@, "Decision", "TraceException")
            ELSE DecisionNodeProcess(@, requests[r].query)]
  /\ UNCHANGED <<tracing, embedding_model, constructions, singleVars>>
  /\ UNCHANGED serviceVars

\* _route_decision
CRoute(r) ==
  /\ requests[r].pc = "route"
  /\ requests' = [requests EXCEPT ![r].pc =
       should_continue(Get(states[StateOf(r)].query_classification, "unknown"),
                       Get(states[StateOf(r)].has_documents, FALSE))]
  /\ UNCHANGED <<tracing, states, embedding_model, constructions, singleVars>>
  /\ UNCHANGED serviceVars

\* _weather_wrapper and WeatherNode.process
CWeather(r) ==
  /\ requests[r].pc = "weather"
  /\ \E trace \in TraceOutcomes :
       IF trace = "raise"
       THEN /\ requests' = [requests EXCEPT ![r].pc = EdgeTo("weather"),
                                            ![r].calls = Traced(@, "trace_weather", trace)]
            /\ states' = [states EXCEPT ![StateOf(r)] =
                            WrapperExcept(@, "Weather", "TraceException")]
       ELSE LET q          == requests[r].query
                location   == extract_location(q)
                query_type == determine_query_type(q)
                op == IF query_type = "forecast" THEN "forecast" ELSE "current_weather"
            IN  \E outcome \in ProviderOutcomes :
                  /\ requests' = [requests EXCEPT ![r].pc = EdgeTo("weather"),
                        ![r].calls = Append(Traced(@, "trace_weather", trace),
                                            WeatherRequest(op, outcome, location))]
                  /\ states' = [states EXCEPT ![StateOf(r)] =
                        WeatherNodeProcess(@, WeatherCall(query_type, outcome))]
  /\ UNCHANGED <<tracing, embedding_model, constructions, singleVars>>
  /\ UNCHANGED serviceVars

\* _fallback_wrapper and FallbackNode.process
CFallback(r) ==
  /\ requests[r].pc = "fallback"
  /\ \E trace \in TraceOutcomes :
       /\ requests' = [requests EXCEPT ![r].pc = EdgeTo("fallback"),
                                       ![r].calls = Traced(@, "trace_fallback", trace)]
       /\ states' = [states EXCEPT ![StateOf(r)] =
            IF trace = "raise" THEN WrapperExcept(@, "Fallback", "TraceException")
            ELSE FallbackNodeProcess(@)]
  /\ UNCHANGED <<tracing, embedding_model, constructions, singleVars>>
  /\ UNCHANGED serviceVars

\* _rag_wrapper up to the call of search_similar_chunks
CRag(r) ==
  /\ requests[r].pc = "rag"
  /\ \E trace \in TraceOutcomes :
       /\ requests' = [requests EXCEPT
            ![r].pc = IF trace = "raise" THEN EdgeTo("rag") ELSE "ensure",
            ![r].calls = Traced(@, "trace_rag", trace)]
       /\ states' = [states EXCEPT ![StateOf(r)] =
            IF trace = "raise" THEN WrapperExcept(@, "RAG", "TraceException") ELSE @]
  /\ UNCHANGED <<tracing, embedding_model, constructions, singleVars>>
  /\ UNCHANGED serviceVars

\* _ensure_embeddings_model: the test `self.embedding_model is None`
CEnsure(r) ==
  /\ requests[r].pc = "ensure"
  /\ requests' = [requests EXCEPT ![r].pc =
       IF embedding_model = NoModel THEN "construct" ELSE "search"]
  /\ UNCHANGED <<tracing, states, embedding_model, constructions, singleVars>>
  /\ UNCHANGED serviceVars

\* _ensure_embeddings_model: self.embedding_model = HuggingFaceEmbeddings(...)
CConstruct(r) ==
  /\ requests[r].pc = "construct"
  /\ constructions' = constructions + 1
  /\ embedding_model' = constructions + 1
  /\ requests' = [requests EXCEPT ![r].pc = "search"]
  /\ UNCHANGED <<tracing, states, singleVars>>
  /\ UNCHANGED serviceVars

\* search_similar_chunks: the model handle is read, then the store is searched
CSearch(r) ==
  /\ requests[r].pc = "search"
  /\ \E outcome \in {"ok", "raise"}, hits \in ConcHits :
       /\ outcome = "raise" => hits = <<>>
       /\ requests' = [requests EXCEPT
            ![r].pc = "rag_answer",
            ![r].model = embedding_model,
            ![r].calls = Append(@, Call("search", outcome)),
            ![r].similar_chunks = search_similar_chunks(outcome, hits)]
  /\ UNCHANGED <<tracing, states, embedding_model, constructions, singleVars>>
  /\ UNCHANGED serviceVars

\* query_documents: the early return on no chunks, else the answer call
CAnswer(r) ==
  /\ requests[r].pc = "rag_answer"
  /\ IF NeedsAnswer(requests[r].similar_chunks)
     THEN /\ \E outcome \in {"ok", "raise"} :
               requests' = [requests EXCEPT
                 ![r].pc = "rag_score",
                 ![r].calls = Append(@, Call("answer", outcome)),
                 ![r].answer = answer_question(outcome)]
          /\ states' = states
     ELSE /\ requests' = [requests EXCEPT ![r].pc = EdgeTo("rag")]
          /\ states' = [states EXCEPT ![StateOf(r)] = RAGNodeProcess(@, EmptyRagResult)]
  /\ UNCHANGED <<tracing, embedding_model, constructions, singleVars>>
  /\ UNCHANGED serviceVars

\* query_documents: sources and confidence; RAGNode.process: the state update
CScore(r) ==
  /\ requests[r].pc = "rag_score"
  /\ requests' = [requests EXCEPT ![r].pc = EdgeTo("rag")]
  /\ states' = [states EXCEPT ![StateOf(r)] =
       RAGNodeProcess(@, RagResult(requests[r].similar_chunks, requests[r].answer))]
  /\ UNCHANGED <<tracing, embedding_model, constructions, singleVars>>
  /\ UNCHANGED serviceVars

\* process_query after graph.invoke: the closing create_run and the return
CComplete(r) ==
  /\ requests[r].pc = "complete"
  /\ \E trace \in TraceOutcomes :
       requests' = [requests EXCEPT
         ![r].pc = "done",
         ![r].calls = Traced(@, "trace_process", trace),
         ![r].result = IF trace = "raise" THEN OuterExcept("TraceException")
                       ELSE [kind |-> "return", value |-> states[StateOf(r)]]]
  /\ UNCHANGED <<tracing, states, embedding_model, constructions, singleVars>>
  /\ UNCHANGED serviceVars

NextConc ==
  \/ \E r \in Requests : CProbe(r)
  \/ \E r \in Requests : CDecision(r)
  \/ \E r \in Requests : CRoute(r)
  \/ \E r \in Requests : CWeather(r)
  \/ \E r \in Requests : CFallback(r)
  \/ \E r \in Requests : CRag(r)
  \/ \E r \in Requests : CEnsure(r)
  \/ \E r \in Requests : CConstruct(r)
  \/ \E r \in Requests : CSearch(r)
  \/ \E r \in Requests : CAnswer(r)
  \/ \E r \in Requests : CScore(r)
  \/ \E r \in Requests : CComplete(r)

SpecConc == InitConc /\ [][NextConc]_vars

(***************************************************************************)
(* Calls of _find_chunk_page_range on the page lists process_pdf builds.   *)
(***************************************************************************)
\* no request is under way in the agent
WorkflowIdle ==
  /\ pc = "idle"
  /\ query = <<>>
  /\ tracing = FALSE
  /\ state = InitialState(FALSE)
  /\ calls = <<>>
  /\ similar_chunks = <<>>
  /\ answer = ""
  /\ result = [kind |-> "none", value |-> InitialState(FALSE)]
  /\ executed = <<>>
  /\ requests = <<>>
  /\ states = <<>>
  /\ embedding_model = NoModel
  /\ constructions = 0

\* chunk texts: five distinct words with an upper-case one, a repeated word,
\* words no page has
ChunkTexts ==
  { <<"a"," ","B"," ","c"," ","d"," ","e">>,
    <<"b"," ","a"," ","b">>,
    <<"x"," ","y">> }

\* page texts: four, three and one distinct words (the last with repeats)
PageTexts ==
  { <<"A"," ","b"," ","c"," ","d">>,
    <<"c"," ","b"," "," ","a">>,
    <<"a"," ","z"," ","a"," ","a"," ","a">> }

\* str.strip() leaves text: `if page_text.strip()` in process_pdf
NonEmptyPage(text) == Strip(text) # <<>>

\* one entry of page_texts
PageInfo(page_num, text) == [page_num |-> page_num, text |-> Strip(text)]

\* the lists process_pdf can build from a PDF of at most MaxPages pages: the
\* pages with text, in ascending page order
RECURSIVE PageLists(_)
PageLists(n) ==
  IF n = 0 THEN {<<>>}
  ELSE LET shorter == PageLists(n - 1)
       IN  shorter \cup
           { Append(pages, PageInfo(n, text)) :
               pages \in shorter, text \in {t \in PageTexts : NonEmptyPage(t)} }

InitPages ==
  /\ WorkflowIdle
  /\ chunk \in ChunkTexts
  /\ page_texts \in PageLists(MaxPages)
  /\ page_range = Absent
  /\ ingest = IdleIngest
  /\ weather_call = [pc |-> "idle"]

\* one call _find_chunk_page_range(chunk, page_texts)
FindChunkPageRange ==
  /\ page_range = Absent
  /\ page_range' = Some(find_chunk_page_range(chunk, page_texts))
  /\ UNCHANGED <<chunk, page_texts, ingest, weather_call>>
  /\ UNCHANGED <<tracing, singleVars, concVars>>

SpecPages == InitPages /\ [][FindChunkPageRange]_vars

(***************************************************************************)
(* Calls of WeatherService.get_current_weather and get_weather_forecast.   *)
(***************************************************************************)
Cities == {"london", "New York"}

CountryCodes == {Absent, Some("uk")}

\* what requests.get does: a response with a status code, or an exception
HttpStatuses == {200, 401, 404, 500}

GetExceptions == {"ConnectionError", "Timeout", "Exception"}

\* what response.json() holds: every key read, a key missing, or an empty
\* "weather" list (data["weather"][0])
Bodies == {"complete", "missing_key", "empty_weather"}

NewWeatherCall(fn, city, country_code, api_key) ==
  [pc |-> "start", fn |-> fn, city |-> city, country_code |-> country_code,
   api_key |-> api_key, url |-> "", status |-> 0, raised |-> None, at |-> "",
   result |-> ServiceReturn({}, Absent, Absent)]

InitWeather ==
  /\ WorkflowIdle
  /\ chunk = <<>>
  /\ page_texts = <<>>
  /\ page_range = Absent
  /\ ingest = IdleIngest
  /\ weather_call \in
       { NewWeatherCall(fn, city, country_code, api_key) :
           fn \in {"current_weather", "forecast"}, city \in Cities,
           country_code \in CountryCodes, api_key \in BOOLEAN }

\* an exception e raised at step `at` reaches the except clauses
Caught(e, status, at) ==
  [weather_call EXCEPT
     !.pc = "done", !.raised = e, !.at = at, !.status = status,
     !.result = ServiceExcept(weather_call.fn, e, status, weather_call.city)]

\* the API key check and the URL
ValidateKey ==
  /\ weather_call.pc = "start"
  /\ weather_call' =
       IF ~weather_call.api_key
       THEN [weather_call EXCEPT !.pc = "done",
                                 !.result = ErrorResult("Missing OPENWEATHER_API_KEY", "",
                                                        weather_call.city)]
       ELSE [weather_call EXCEPT
               !.pc = "get",
               !.url = LocationString(weather_call.city, weather_call.country_code)]
  /\ UNCHANGED <<chunk, page_texts, page_range, ingest>>
  /\ UNCHANGED <<tracing, singleVars, concVars>>

\* requests.get(url, timeout=10)
HttpGet ==
  /\ weather_call.pc = "get"
  /\ \/ \E status \in HttpStatuses :
          weather_call' = [weather_call EXCEPT !.pc = "status", !.status = status]
     \/ \E e \in GetExceptions : weather_call' = Caught(e, 0, "get")
  /\ UNCHANGED <<chunk, page_texts, page_range, ingest>>
  /\ UNCHANGED <<tracing, singleVars, concVars>>

\* response.raise_for_status()
RaiseForStatus ==
  /\ weather_call.pc = "status"
  /\ weather_call' =
       IF weather_call.status >= 400
       THEN Caught("HTTPError", weather_call.status, "raise_for_status")
       ELSE [weather_call EXCEPT !.pc = "json"]
  /\ UNCHANGED <<chunk, page_texts, page_range, ingest>>
  /\ UNCHANGED <<tracing, singleVars, concVars>>

\* response.json() and the dict built from it
ReadBody ==
  /\ weather_call.pc = "json"
  /\ \E body \in Bodies : \E name \in Cities :
       weather_call' =
         IF body = "missing_key" THEN Caught("KeyError", weather_call.status, "body")
         ELSE IF body = "empty_weather"
              THEN Caught("IndexError", weather_call.status, "body")
         ELSE [weather_call EXCEPT !.pc = "done",
                                   !.result = WeatherData(weather_call.fn, name)]
  /\ UNCHANGED <<chunk, page_texts, page_range, ingest>>
  /\ UNCHANGED <<tracing, singleVars, concVars>>

NextWeather == ValidateKey \/ HttpGet \/ RaiseForStatus \/ ReadBody

SpecWeather == InitWeather /\ [][NextWeather]_vars

(***************************************************************************)
(* RAGAgent.add_document: process_document_and_store, process_pdf,         *)
(* generate_embeddings and store_in_qdrant.                                *)
(***************************************************************************)
\* what text_splitter.split_text can give back for a text: no chunk or chunks
Splits ==
  { <<>>,
    << <<"a"," ","B"," ","c"," ","d"," ","e">> >>,
    << <<"b"," ","a"," ","b">>, <<"x"," ","y">> >> }

\* `if not chunks` with every list taken as non-empty
NoChunks_never(chunks) == FALSE

\* `if not chunks` in process_document_and_store
NoChunks(chunks) == chunks = <<>>

\* chunk_data in process_pdf, and the embedding generate_embeddings adds
ChunkData(text, range) == [text |-> Strip(text), page_range |-> range, embedding |-> FALSE]

\* chunk["embedding"] = embeddings[i] for the first k chunks
WithEmbeddings(chunks, k) ==
  [i \in 1..Len(chunks) |-> IF i <= k THEN [chunks[i] EXCEPT !.embedding = TRUE]
                            ELSE chunks[i]]

\* the points of store_in_qdrant can be built: every chunk has an embedding
PointsBuilt(chunks) == \A i \in 1..Len(chunks) : chunks[i].embedding

InitIngest ==
  /\ WorkflowIdle
  /\ chunk = <<>>
  /\ page_texts = <<>>
  /\ page_range = Absent
  /\ weather_call = [pc |-> "idle"]
  /\ ingest = [IdleIngest EXCEPT !.pc = "open"]

\* process_pdf returns the list `chunks` to process_document_and_store
ProcessPdfReturns(log, chunks) ==
  [ingest EXCEPT !.pc = "check", !.calls = log, !.chunks = chunks, !.todo = <<>>]

\* process_pdf: PyPDF2.PdfReader(file); an exception gives []
OpenPdf ==
  /\ ingest.pc = "open"
  /\ \E outcome \in {"ok", "raise"} :
       LET log == Append(ingest.calls, Call("PdfReader", outcome))
       IN  ingest' = IF outcome = "raise" THEN ProcessPdfReturns(log, <<>>)
                     ELSE [ingest EXCEPT !.pc = "extract", !.calls = log]
  /\ UNCHANGED <<chunk, page_texts, page_range, weather_call>>
  /\ UNCHANGED <<tracing, singleVars, concVars>>

\* process_pdf: one turn of the loop over pdf_reader.pages
ExtractPage ==
  /\ ingest.pc = "extract"
  /\ ingest.page_num < MaxPages
  /\ ingest' = [ingest EXCEPT !.page_num = @ + 1]
  /\ \/ \E text \in PageTexts \cup { <<>>, <<" "," ">> } :
          page_texts' = IF NonEmptyPage(text)
                        THEN Append(page_texts, PageInfo(ingest.page_num + 1, text))
                        ELSE page_texts
     \/ page_texts' = page_texts    \* extract_text raised: continue
  /\ UNCHANGED <<chunk, page_range, weather_call>>
  /\ UNCHANGED <<tracing, singleVars, concVars>>

\* process_pdf after the last page: [] when no text was extracted (all_text is
\* empty exactly when page_texts is), else _clean_text and split_text
SplitText ==
  /\ ingest.pc = "extract"
  /\ IF page_texts = <<>>
     THEN ingest' = ProcessPdfReturns(ingest.calls, <<>>)
     ELSE \/ ingest' = ProcessPdfReturns(Append(ingest.calls, Call("split_text", "raise")),
                                         <<>>)
          \/ \E split \in Splits :
               ingest' = [ingest EXCEPT !.pc = "attribute", !.todo = split,
                            !.calls = Append(@, Call("split_text", "ok"))]
  /\ UNCHANGED <<chunk, page_texts, page_range, weather_call>>
  /\ UNCHANGED <<tracing, singleVars, concVars>>

\* process_pdf: one turn of the loop over the chunks, or its end
AttributeChunk ==
  /\ ingest.pc = "attribute"
  /\ IF ingest.todo = <<>>
     THEN /\ ingest' = ProcessPdfReturns(ingest.calls, ingest.chunks)
          /\ UNCHANGED <<chunk, page_range>>
     ELSE LET found == find_chunk_page_range(Head(ingest.todo), page_texts)
          IN  /\ chunk' = Head(ingest.todo)
              /\ page_range' = Some(found)
              /\ ingest' = [ingest EXCEPT
                    !.todo = Tail(@),
                    !.chunks = Append(@, ChunkData(Head(ingest.todo), found.returned))]
  /\ UNCHANGED <<page_texts, weather_call>>
  /\ UNCHANGED <<tracing, singleVars, concVars>>

\* process_document_and_store: `if not chunks: return False`
CheckChunks ==
  /\ ingest.pc = "check"
  /\ ingest' = IF NoChunks(ingest.chunks)
               THEN [ingest EXCEPT !.pc = "done", !.returned = Some(FALSE)]
               ELSE [ingest EXCEPT !.pc = "embed"]
  /\ UNCHANGED <<chunk, page_texts, page_range, weather_call>>
  /\ UNCHANGED <<tracing, singleVars, concVars>>

\* generate_embeddings: embed_documents gives k embeddings or raises; the except
\* clause returns the chunks as they are
GenerateEmbeddings ==
  /\ ingest.pc = "embed"
  /\ \/ ingest' = [ingest EXCEPT !.pc = "store",
                      !.calls = Append(@, Call("embed_documents", "raise"))]
     \/ \E k \in 0..Len(ingest.chunks) :
          ingest' = [ingest EXCEPT !.pc = "store",
                       !.calls = Append(@, Call("embed_documents", "ok")),
                       !.chunks = WithEmbeddings(@, k)]
  /\ UNCHANGED <<chunk, page_texts, page_range, weather_call>>
  /\ UNCHANGED <<tracing, singleVars, concVars>>

\* store_in_qdrant, and the value add_document hands back
StoreInQdrant ==
  /\ ingest.pc = "store"
  /\ IF ~PointsBuilt(ingest.chunks)
     THEN ingest' = [ingest EXCEPT !.pc = "done", !.returned = Some(FALSE)]
     ELSE \E outcome \in {"ok", "raise"} :
            ingest' = [ingest EXCEPT !.pc = "done",
                         !.calls = Append(@, Call("upsert", outcome)),
                         !.returned = Some(outcome = "ok")]
  /\ UNCHANGED <<chunk, page_texts, page_range, weather_call>>
  /\ UNCHANGED <<tracing, singleVars, concVars>>

NextIngest ==
  \/ OpenPdf
  \/ ExtractPage
  \/ SplitText
  \/ AttributeChunk
  \/ CheckChunks
  \/ GenerateEmbeddings
  \/ StoreInQdrant

SpecIngest == InitIngest /\ [][NextIngest]_vars

(***************************************************************************)
(* Vocabulary of the properties.                                           *)
(***************************************************************************)
\* the query contains at least one keyword of the list, as a substring of its
\* lower-cased text
HasKeyword(keywords, q) ==
  \E i \in 1..Len(keywords) : Contains(Lower(q), keywords[i])

\* the decision node has just classified the query
Classified == pc = "route" /\ state.query_classification # Absent

Classification == Get(state.query_classification, "unknown")

\* the router has just chosen the next node
Routed == pc \in {"weather", "rag", "fallback"}

\* a collaborator call of this kind, with this outcome, was made
Called(op) == \E i \in 1..Len(calls) : calls[i].op = op

CalledWith(op, res) ==
  \E i \in 1..Len(calls) : calls[i].op = op /\ calls[i].res = res

\* the similarity scores of the retrieved chunks, in hundredths
RetrievedScores == [i \in 1..Len(similar_chunks) |-> similar_chunks[i].score]

RECURSIVE SeqSum(_)
SeqSum(xs) == IF xs = <<>> THEN 0 ELSE Head(xs) + SeqSum(Tail(xs))

\* the document handler has produced its result
DocumentHandled == state.rag_result # Absent

\* the confidence in the state is the fraction a/b (b > 0)
ConfidenceIs(a, b) ==
  /\ state.confidence # Absent
  /\ state.confidence[1].num * b = a * state.confidence[1].den

\* the confidence in the state is greater than the whole number t
ConfidenceAbove(t) ==
  /\ state.confidence # Absent
  /\ state.confidence[1].num > t * state.confidence[1].den

ResponseTypes == {"weather", "document", "fallback", "error"}

(***************************************************************************)
(* C1 - router totality.                                                   *)
(***************************************************************************)
\* C1: for every (classification, has_documents) pair the router picks exactly
\* one node: weather iff the classification is weather; rag iff it is document,
\* or unknown with documents indexed; fallback iff unknown with no documents.
C1_RouterTable ==
  Routed =>
    LET c == Classification
        h == Get(state.has_documents, FALSE)
    IN  /\ c \in {"weather", "document", "unknown"}
        /\ (pc = "weather") <=> (c = "weather")
        /\ (pc = "rag") <=> (c = "document" \/ (c = "unknown" /\ h))
        /\ (pc = "fallback") <=> (c = "unknown" /\ ~h)

\* the router sends an unclassified request to rag because documents are indexed
C1_Witness ==
  /\ pc = "rag"
  /\ Classification = "unknown"
  /\ state.has_documents = Some(TRUE)

(***************************************************************************)
(* C2 - the confidence threshold of the document handler.                  *)
(***************************************************************************)
\* C2: for every non-empty retrieval result the document handler returns the
\* synthesized answer iff the confidence (0-100) is greater than 30.
C2_AnswerIffAbove30 ==
  (DocumentHandled /\ similar_chunks # <<>>) =>
    ((state.response = "document_answer") <=> ConfidenceAbove(30))

(***************************************************************************)
(* C3 - when the LLM answer call is made.                                  *)
(***************************************************************************)
\* C3 (as claimed): the answer call happens only after the retrieval results
\* have been scored and only when the confidence is above the threshold.
C3_AnswerOnlyWhenAccepted ==
  Called("answer") => ConfidenceAbove(30)

\* C3 (amended): in a document-routed request the answer call is made exactly
\* when retrieval returned at least one chunk, after the search and before the
\* confidence is computed, whatever the confidence turns out to be; when
\* retrieval returns no chunks no answer call is made.
C3_AnswerIffChunks ==
  /\ Called("answer") => (Called("search") /\ similar_chunks # <<>>)
  /\ (pc \in {"rag_score", "complete", "done"} /\ Called("search"))
       => (Called("answer") <=> similar_chunks # <<>>)
  /\ pc = "rag_score" => (Called("answer") /\ state.confidence = Absent)

\* an answer call was made in a request whose confidence ends at or below 30
C3_Witness ==
  /\ pc = "done"
  /\ Called("answer")
  /\ DocumentHandled
  /\ ~ConfidenceAbove(30)

(***************************************************************************)
(* C4, C5 - failures of collaborators, nodes and the tracing client.       *)
(***************************************************************************)
CollaboratorFailed ==
  \/ CalledWith("current_weather", "error_result")
  \/ CalledWith("current_weather", "raise")
  \/ CalledWith("forecast", "error_result")
  \/ CalledWith("forecast", "raise")
  \/ CalledWith("search", "raise")
  \/ CalledWith("answer", "raise")

\* C4: whenever a collaborator call fails during a request, the final state
\* returned by process_query has response_type = "error", and the failure does
\* not propagate out of process_query.
C4_FailureGivesErrorType ==
  (pc = "done" /\ CollaboratorFailed) =>
    /\ result.kind = "return"
    /\ result.value.response_type = "error"

\* C5: whatever fails, process_query returns (does not raise) a state whose
\* response is non-empty and whose response_type is weather, document,
\* fallback or error.
C5_AlwaysPopulated ==
  pc = "done" =>
    /\ result.kind = "return"
    /\ result.value.response # ""
    /\ result.value.response_type \in ResponseTypes

(***************************************************************************)
(* C6, C7, C9 - the classifier.                                            *)
(***************************************************************************)
NoKeywords(q) ==
  /\ ~HasKeyword(weather_keywords, q)
  /\ ~HasKeyword(document_keywords, q)

\* C6: a query that contains no weather keyword and no document keyword is
\* classified "unknown".
C6_NoKeywordIsUnknown ==
  (Classified /\ NoKeywords(query)) => Classification = "unknown"

NoTraceFailure ==
  /\ state.error = None
  /\ result.value = state

\* C8: a query without keywords, processed while the store is empty (and with
\* nothing failing), ends with response_type "fallback" and with no
\* collaborator call besides the has_documents probe.
C8_NoKeywordNoDocsFallsBack ==
  (pc = "done" /\ state.has_documents = Some(FALSE) /\ NoTraceFailure
     /\ NoKeywords(query)) =>
    /\ result.value.response_type = "fallback"
    /\ \A i \in 1..Len(calls) : calls[i].op = "count"

(***************************************************************************)
(* C10 - the confidence computed by query_documents.                       *)
(***************************************************************************)
\* C10: the confidence is 0 when retrieval returns no chunks and otherwise
\* min(100, 100 * mean of the scores); scores [0.5] give 50 and scores
\* [0.6, 0.5, 0.4] give 50.
C10_ConfidenceFormula ==
  DocumentHandled =>
    LET n   == Len(RetrievedScores)
        sum == SeqSum(RetrievedScores)
    IN  /\ n = 0 => ConfidenceIs(0, 1)
        /\ (n > 0 /\ sum <= 100 * n) => ConfidenceIs(sum, n)
        /\ (n > 0 /\ sum > 100 * n) => ConfidenceIs(100, 1)
        /\ RetrievedScores = <<50>> => ConfidenceIs(50, 1)
        /\ RetrievedScores = <<60, 50, 40>> => ConfidenceIs(50, 1)

\* a retrieval whose mean score is above 1 has been scored
C10_Witness ==
  /\ DocumentHandled
  /\ Len(RetrievedScores) = 2
  /\ SeqSum(RetrievedScores) > 200
  /\ ConfidenceIs(100, 1)

(***************************************************************************)
(* C11 - the range of the confidence.                                      *)
(***************************************************************************)
\* C11: the confidence attached to a state lies in [0, 100], whatever
\* similarity scores the vector store returned (below 0 and above 1 included).
C11_ConfidenceInRange ==
  state.confidence # Absent =>
    LET confidence == Get(state.confidence, [num |-> 0, den |-> 1])
    IN  /\ 0 <= confidence.num
        /\ confidence.num <= 100 * confidence.den

(***************************************************************************)
(* C12 - a failing has_documents probe.                                    *)
(***************************************************************************)
\* something other than the probe failed: a trace call (only possible with a
\* tracing client), a collaborator call, or the formatting of a forecast
OtherFailurePossible ==
  \/ tracing
  \/ CollaboratorFailed
  \/ CalledWith("forecast", "ok")

\* C12: when the count call of the has_documents probe raises, the workflow
\* runs with has_documents = false, process_query still returns, and the probe
\* failure is not visible: the initial state has no error, and unless
\* something else fails the state never gets an error or response_type
\* "error" and is what process_query returns.
C12_ProbeFailureHidden ==
  CalledWith("count", "raise") =>
    /\ state.has_documents = Some(FALSE)
    /\ pc = "decision" => state = InitialState(FALSE)
    /\ pc = "done" => result.kind = "return"
    /\ ~OtherFailurePossible =>
         /\ state.error = None
         /\ state.response_type # "error"
         /\ pc = "done" => result.value = state

\* a request whose probe failed, and nothing else, has returned
C12_Witness ==
  /\ pc = "done"
  /\ CalledWith("count", "raise")
  /\ ~OtherFailurePossible
  /\ result.value.response_type \in {"weather", "fallback"}
  /\ result.value.error = None

(***************************************************************************)
(* C13 - the shape of a run of the graph.                                  *)
(***************************************************************************)
HandlerNodes == {"weather", "rag", "fallback"}

\* C13: a request runs the decision node first and once, then exactly one of
\* the weather, rag and fallback nodes once, then ends: no node runs twice,
\* also when a node fails; the router always leads to one of the three handler
\* nodes, so the terminal state comes after exactly two node executions.
C13_TwoNodeExecutions ==
  /\ pc \in {"start", "decision"} => executed = <<>>
  /\ pc \in {"route"} \cup HandlerNodes => executed = <<"decision">>
  /\ pc \in {"rag_answer", "rag_score"} => executed = <<"decision", "rag">>
  /\ pc \in {"complete", "done"} =>
       /\ Len(executed) = 2
       /\ executed[1] = "decision"
       /\ executed[2] \in HandlerNodes
  /\ pc \in {"start", "decision", "route", "rag_answer", "rag_score", "complete",
             "done"} \cup HandlerNodes

\* a request in which a node failed has ended after two node executions
C13_Witness ==
  /\ pc = "done"
  /\ state.response_type = "error"
  /\ executed = <<"decision", "weather">>

(***************************************************************************)
(* C14 - the weather-provider call of a weather-routed request.            *)
(***************************************************************************)
WeatherOps == {"current_weather", "forecast"}

WeatherCallsMade == {i \in 1..Len(calls) : calls[i].op \in WeatherOps}

\* "What's the weather in London?"
ScenarioA ==
  <<"W","h","a","t","'","s"," ","t","h","e"," ","w","e","a","t","h","e","r"," ",
    "i","n"," ","L","o","n","d","o","n","?">>

\* C14: a request routed to the weather node makes exactly one weather-provider
\* call, the current-weather call or the forecast call, also when the call
\* fails; for "What's the weather in London?" with no documents indexed (no
\* trace call failing, the provider returning) it is the current-weather call
\* for city "London" without country, and response_type ends as "weather".
C14_OneProviderCall ==
  (pc \in {"complete", "done"} /\ executed[2] = "weather") =>
    /\ Cardinality(WeatherCallsMade) = 1
    /\ (/\ pc = "done"
        /\ query = ScenarioA
        /\ CalledWith("count", "zero")
        /\ NoTraceFailure
        /\ ~CollaboratorFailed) =>
         /\ calls[2].op = "current_weather"
         /\ calls[2].arg = Some(Location(<<"L","o","n","d","o","n">>, Absent))
         /\ result.value.response_type = "weather"

(***************************************************************************)
(* C15, C16, C17 - what the handler nodes leave in the state.              *)
(***************************************************************************)
\* at most one of weather_data and rag_result is in st, and it matches
\* response_type
OneSubstructure(st) ==
  /\ ~(st.weather_data # Absent /\ st.rag_result # Absent)
  /\ st.weather_data # Absent => st.response_type = "weather"
  /\ st.rag_result # Absent => st.response_type = "document"

\* C15: in every state of a request (the state between node executions and
\* the state process_query returns) at most one of weather_data and rag_result
\* is populated; weather_data is present only when response_type = "weather"
\* and rag_result only when response_type = "document".
C15_OneSubstructure ==
  /\ OneSubstructure(state)
  /\ OneSubstructure(result.value)

\* the weather node has stored provider data and the request has returned
C15_Witness ==
  /\ pc = "done"
  /\ Called("current_weather")
  /\ result.value.weather_data # Absent
  /\ result.value.response_type = "weather"

\* C16: in the state process_query returns, sources is non-empty only if
\* response_type = "document" and a confidence is present only if
\* response_type = "document".
C16_SourcesOnlyForDocuments ==
  pc = "done" =>
    /\ Get(result.value.sources, <<>>) # <<>> => result.value.response_type = "document"
    /\ result.value.confidence # Absent => result.value.response_type = "document"

\* process_query has returned a document state with sources and a confidence
C16_Witness ==
  /\ pc = "done"
  /\ Get(result.value.sources, <<>>) # <<>>
  /\ result.value.confidence # Absent
  /\ result.value.response_type = "document"

\* C17: when a document-routed request has retrieved n chunks (n <= 3), the
\* state at the end of the graph run has response_type "document" and n
\* sources in the order of the chunks, source i carrying the source,
\* page_range and score of chunk i.
C17_SourcesFollowChunks ==
  (pc = "complete" /\ Called("search")) =>
    LET sources == Get(state.sources, <<>>)
    IN  /\ state.response_type = "document"
        /\ Len(similar_chunks) <= rag_limit
        /\ Len(sources) = Len(similar_chunks)
        /\ \A i \in 1..Len(sources) :
             /\ sources[i].source = similar_chunks[i].source
             /\ sources[i].page_range = similar_chunks[i].page_range
             /\ sources[i].score = similar_chunks[i].score

\* three chunks were retrieved, not in the order of their scores
C17_Witness ==
  /\ pc = "done"
  /\ Len(similar_chunks) = 3
  /\ similar_chunks[1].score < similar_chunks[3].score
  /\ Len(Get(result.value.sources, <<>>)) = 3

(***************************************************************************)
(* C18, C19, C20 - two calls of process_query on one agent.                *)
(***************************************************************************)
\* the outcome the log holds for a collaborator call, ok when it has none
Res(log, op) ==
  IF \E i \in 1..Len(log) : log[i].op = op
  THEN log[CHOOSE i \in 1..Len(log) : log[i].op = op].res
  ELSE "ok"

\* what process_query returns when it runs alone with query q and receives
\* the collaborator responses of the log and the chunks from the search
RunAlone(q, log, chunks) ==
  LET st0 == InitialState(has_documents(Res(log, "count")))
      st1 == IF Res(log, "trace_decision") = "raise"
             THEN WrapperExcept(st0, "Decision", "TraceException")
             ELSE DecisionNodeProcess(st0, q)
      node == should_continue(Get(st1.query_classification, "unknown"),
                              Get(st1.has_documents, FALSE))
      query_type == determine_query_type(q)
      op  == IF query_type = "forecast" THEN "forecast" ELSE "current_weather"
      st2 == IF node = "weather"
             THEN IF Res(log, "trace_weather") = "raise"
                  THEN WrapperExcept(st1, "Weather", "TraceException")
                  ELSE WeatherNodeProcess(st1, WeatherCall(query_type, Res(log, op)))
             ELSE IF node = "fallback"
             THEN IF Res(log, "trace_fallback") = "raise"
                  THEN WrapperExcept(st1, "Fallback", "TraceException")
                  ELSE FallbackNodeProcess(st1)
             ELSE IF Res(log, "trace_rag") = "raise"
                  THEN WrapperExcept(st1, "RAG", "TraceException")
                  ELSE IF NeedsAnswer(chunks)
                       THEN RAGNodeProcess(st1,
                              RagResult(chunks, answer_question(Res(log, "answer"))))
                       ELSE RAGNodeProcess(st1, EmptyRagResult)
  IN  IF Res(log, "trace_process") = "raise" THEN OuterExcept("TraceException")
      ELSE [kind |-> "return", value |-> st2]

AllDone == \A r \in Requests : requests[r].pc = "done"

\* the two calls had the same query and received the same responses
SameInputs ==
  /\ requests[1].query = requests[2].query
  /\ requests[1].calls = requests[2].calls
  /\ requests[1].similar_chunks = requests[2].similar_chunks

\* C18: two process_query calls with the same query that receive the same
\* collaborator responses end with the same query_classification and the same
\* response_type, whether the second call starts after the first has returned
\* or while it runs.
C18_SameInputsSameOutcome ==
  (AllDone /\ SameInputs) =>
    /\ requests[1].result.value.query_classification
         = requests[2].result.value.query_classification
    /\ requests[1].result.value.response_type = requests[2].result.value.response_type

\* two calls with the same query and the same responses have returned a
\* document state
C18_Witness ==
  /\ AllDone
  /\ SameInputs
  /\ requests[1].result.value.query_classification = Some("document")
  /\ requests[2].result.value.response_type = "document"

\* C19: when two requests run concurrently on one agent, interleaved at any
\* point, the state dict of a request is written only by steps of that
\* request, and what a request returns is what it returns when it runs alone
\* with the same collaborator responses.
C19_RequestsIsolated ==
  [][\A r \in Requests :
       /\ states'[r] # states[r] => requests'[r].pc # requests[r].pc
       /\ (requests[r].pc = "complete" /\ requests'[r].pc = "done") =>
            requests'[r].result =
              RunAlone(requests[r].query, requests'[r].calls, requests[r].similar_chunks)
    ]_vars

\* two document requests ran interleaved (both tested the model handle before
\* either had assigned it) and have returned document states
C19_Witness ==
  /\ AllDone
  /\ constructions = 2
  /\ \A r \in Requests : requests[r].result.value.response_type = "document"

\* C20: when two document-routed requests make the first retrieval call
\* concurrently, the embedding model is constructed at most once and both
\* requests embed their query with the same model handle.
C20_ModelBuiltOnce ==
  /\ constructions <= 1
  /\ \A r1, r2 \in Requests :
       (requests[r1].model # NoModel /\ requests[r2].model # NoModel)
         => requests[r1].model = requests[r2].model

(***************************************************************************)
(* C21, C28: page attribution.                                             *)
(***************************************************************************)
\* the number of distinct lower-cased words the chunk shares with the k-th page
Overlap(k) == Cardinality(WordSet(chunk) \cap WordSet(page_texts[k].text))

\* the largest overlap of the chunk with any page, 0 without pages
MaxOverlap ==
  IF page_texts = <<>> THEN 0
  ELSE SetMax({Overlap(k) : k \in 1..Len(page_texts)})

\* max(a, b)
Max(a, b) == IF a >= b THEN a ELSE b

\* the call of _find_chunk_page_range has returned
Attributed == page_range # Absent

\* C21: _find_chunk_page_range returns str(best_page) when the largest word-set
\* overlap of the chunk with a page is above 3, and otherwise the window
\* "max(1, best_page-1)-(best_page+1)"; a best page 5 with an overlap of at
\* most 3 gives "4-6"
C21_PageOrWindow ==
  Attributed =>
    LET r == page_range[1]
    IN  /\ MaxOverlap > 3 => r.returned = Str(r.best_page)
        /\ MaxOverlap <= 3 =>
              r.returned = Str(Max(1, r.best_page - 1)) \o "-" \o Str(r.best_page + 1)
        /\ (MaxOverlap <= 3 /\ r.best_page = 5) => r.returned = "4-6"
        /\ (MaxOverlap > 3 /\ r.best_page = 5) => r.returned = "5"

\* a chunk whose best page is page 5, with an overlap of exactly 3, got "4-6"
C21_Witness ==
  /\ Attributed
  /\ MaxOverlap = 3
  /\ page_range[1].best_page = 5
  /\ page_range[1].returned = "4-6"

\* the entries of page_texts whose overlap with the chunk is the largest
Tied == {k \in 1..Len(page_texts) : Overlap(k) = MaxOverlap}

\* the strings that name a page, or a window whose lower bound is at least 1
RangesFromOne ==
  {Str(a) : a \in 1..MaxPages} \cup
  {Str(a) \o "-" \o Str(b) : a \in 1..MaxPages, b \in 1..(MaxPages + 1)}

\* C28: among several pages with the same largest overlap, best_page is the
\* first in scan order, which is the lowest page number; when no page shares a
\* word with the chunk, or there is no page, best_page is 1 and the result is
\* "1-2"; the lower bound of every returned range is at least 1
C28_FirstOfTiedPages ==
  Attributed =>
    LET r == page_range[1]
    IN  /\ MaxOverlap > 0 =>
              /\ r.best_page = page_texts[SetMin(Tied)].page_num
              /\ \A k \in Tied : r.best_page <= page_texts[k].page_num
        /\ MaxOverlap = 0 => (r.best_page = 1 /\ r.returned = "1-2")
        /\ r.returned \in RangesFromOne

\* three pages share the largest overlap and the first of them was kept
C28_Witness ==
  /\ Attributed
  /\ MaxOverlap > 0
  /\ Cardinality(Tied) >= 3
  /\ page_range[1].best_page = page_texts[SetMin(Tied)].page_num
  /\ page_range[1].best_page > 1

(***************************************************************************)
(* C22: failures of the HTTP request in get_current_weather.               *)
(***************************************************************************)
\* a call of get_current_weather is over, and the HTTP request (requests.get
\* or the status check of its response) raised an exception
RequestFailed ==
  /\ weather_call.pc = "done"
  /\ weather_call.fn = "current_weather"
  /\ weather_call.raised # None
  /\ weather_call.at \in {"get", "raise_for_status"}

\* C22: get_current_weather never raises, and for any exception raised by the
\* HTTP request it returns a result whose "error" entry contains "Failed to
\* fetch weather data" and whose location is the requested city
C22_RequestFailureReported ==
  /\ (weather_call.pc = "done" /\ weather_call.fn = "current_weather")
       => weather_call.result.kind = "return"
  /\ RequestFailed =>
       /\ "error" \in weather_call.result.keys
       /\ weather_call.result.error # Absent
       /\ weather_call.result.error[1][1] = "Failed to fetch weather data: "
       /\ weather_call.result.location = Some(weather_call.city)

(***************************************************************************)
(* C23: the outcome of add_document.                                       *)
(***************************************************************************)
\* the collaborator call op is in the log of the ingestion, with result res
Ingested(op, res) ==
  \E i \in 1..Len(ingest.calls) : ingest.calls[i].op = op /\ ingest.calls[i].res = res

IngestCalled(op) == Ingested(op, "ok") \/ Ingested(op, "raise")

\* the PDF could not be read or split, or gave no chunk
NothingExtracted ==
  \/ Ingested("PdfReader", "raise")
  \/ Ingested("split_text", "raise")
  \/ ingest.chunks = <<>>

\* C23: add_document never raises and returns a boolean: True only if the PDF
\* gave at least one chunk and the vector-store upsert succeeded; when the
\* extraction fails or gives no chunk it returns False without calling the
\* embedding generation or the vector store; when the upsert fails it returns
\* False
C23_AddDocumentOutcome ==
  ingest.pc = "done" =>
    /\ ingest.returned \in {Some(TRUE), Some(FALSE)}
    /\ ingest.returned = Some(TRUE) =>
         (ingest.chunks # <<>> /\ Ingested("upsert", "ok"))
    /\ NothingExtracted =>
         /\ ingest.returned = Some(FALSE)
         /\ ~IngestCalled("embed_documents")
         /\ ~IngestCalled("upsert")
    /\ Ingested("upsert", "raise") => ingest.returned = Some(FALSE)

\* a PDF with text whose splitter gave no chunk: False, nothing embedded or stored
C23_Witness ==
  /\ ingest.pc = "done"
  /\ page_texts # <<>>
  /\ Ingested("split_text", "ok")
  /\ ingest.chunks = <<>>
  /\ ingest.returned = Some(FALSE)
  /\ ~IngestCalled("embed_documents")

(***************************************************************************)
(* C24: the error field after a failure inside a node.                     *)
(***************************************************************************)
\* the name a node has in the error text of its wrapper
NodeLabel ==
  [n \in {"decision", "weather", "rag", "fallback"} |->
     CASE n = "decision" -> "Decision"
       [] n = "weather" -> "Weather"
       [] n = "rag" -> "RAG"
       [] OTHER -> "Fallback"]

\* str(e) of the exceptions of the model
FailureMessages ==
  {"TraceException", "ProviderException", "KeyError location", "KeyError current_weather"}

\* the texts "<N> node error: <message>"
NodeErrorTexts(n) == {NodeLabel[n] \o " node error: " \o m : m \in FailureMessages}

\* WeatherNode.process failed: the provider call raised, or the forecast dict
\* could not be formatted
WeatherHandlerFailed ==
  \/ CalledWith("current_weather", "raise")
  \/ CalledWith("forecast", "raise")
  \/ CalledWith("forecast", "ok")

\* C24: whenever a handler fails inside node N, the error field of the final
\* state has the form "<N> error: <message>" naming the failing node, and
\* response / response_type are as the failing handler produced them
C24_ErrorNamesNode ==
  pc = "complete" =>
    /\ state.error # None =>
         \E i \in 1..Len(executed) : state.error \in NodeErrorTexts(executed[i])
    /\ WeatherHandlerFailed =>
         /\ state.error \in NodeErrorTexts("weather")
         /\ state.response = "weather_exception_text"
         /\ state.response_type = "error"

(***************************************************************************)
(* C25: the unknown branch of the router and the fallback node.            *)
(***************************************************************************)
\* the fallback node is about to run or has run
FallbackTaken == pc = "fallback" \/ (Len(executed) = 2 /\ executed[2] = "fallback")

\* C25: classify_query never returns "unknown", and in no run of process_query
\* is the unknown branch of the router taken: the fallback node is never
\* executed, whatever the query, has_documents and the failures that occur
C25_FallbackNeverRuns ==
  /\ Classified => Classification # "unknown"
  /\ ~FallbackTaken

(***************************************************************************)
(* C26, C27: the scores of the classifier.                                 *)
(***************************************************************************)
\* the location patterns the query matches: the three built on "weather" and
\* "temperature", matched without regard to case as the keywords are, and
\* "in/at/for <capitalized word>", matched on the query as written
PatternsMatched(q) ==
    (IF PatTopicPrepWord(Lower(q), W_weather) THEN 1 ELSE 0)
  + (IF PatTopicPrepWord(Lower(q), W_temperature) THEN 1 ELSE 0)
  + (IF PatWordTopic(Lower(q)) THEN 1 ELSE 0)
  + (IF PatPrepCapital(q) THEN 1 ELSE 0)

\* the weather score classify_query compares with the document score
ComparedWeatherScore(q) ==
  LET scores == ClassifierScores(q)
  IN  BoostedWeatherScore(scores.weather_score, scores.location_score)

\* C26: location evidence counts only with a weather keyword: a query without
\* weather keyword is never classified "weather", however many location
\* patterns it matches; with at least one weather keyword the weather score
\* is raised by exactly 2 per matched location pattern before the comparison
\* with the document score
C26_LocationBoost ==
  Classified =>
    /\ ~HasKeyword(weather_keywords, query) => Classification # "weather"
    /\ HasKeyword(weather_keywords, query) =>
         ComparedWeatherScore(query)
           = ClassifierScores(query).weather_score + 2 * PatternsMatched(query)

\* the keywords of a list, each once
KeywordSet(keywords) == {keywords[i] : i \in 1..Len(keywords)}

\* the number of distinct keywords of the list that occur in the query
DistinctKeywords(keywords, q) ==
  Cardinality({kw \in KeywordSet(keywords) : Contains(Lower(q), kw)})

\* C27: before the location boost, weather_score is the number of distinct
\* weather keywords that occur in the query as case-insensitive substrings,
\* each counted once, and document_score the number of distinct document
\* keywords that occur in it
C27_ScoresCountDistinctKeywords ==
  Classified =>
    /\ ClassifierScores(query).weather_score = DistinctKeywords(weather_keywords, query)
    /\ ClassifierScores(query).document_score = DistinctKeywords(document_keywords, query)

(***************************************************************************)
(* C29, C30: the final state of weather requests, and the error field.     *)
(***************************************************************************)
\* the weather node called the provider and the call gave weather data
ProviderSucceeded ==
  \/ CalledWith("current_weather", "ok")
  \/ CalledWith("forecast", "ok")

\* C29: for every weather-routed request whose provider call succeeds, be it
\* the current-weather call or the forecast call, the final state has
\* response_type "weather", weather_data populated and no error
C29_ProviderSuccessIsWeather ==
  (pc = "complete" /\ ProviderSucceeded) =>
    /\ state.response_type = "weather"
    /\ state.weather_data # Absent
    /\ state.error = None

\* C30: in every final state returned by process_query, the error field is set
\* exactly when response_type is "error"
C30_ErrorIffErrorType ==
  (pc = "done" /\ result.kind = "return") =>
    (result.value.error # None <=> result.value.response_type = "error")
====
